---- MODULE Spec2Model ----
(***************************************************************************)
(* A model of lib/Transforms/Utils/LibCallsShrinkWrap.cpp: the pass that   *)
(* shrink-wraps a library call whose result is unused in a guard that is   *)
(* true only when the call may set errno.                                  *)
(*                                                                         *)
(* Floating-point values are records [cls, num]: cls is "fin", "nzero"     *)
(* (-0.0), "nan", "pinf" or "ninf"; num counts halves, so Fin(709) is      *)
(* 709.0 and FP("fin", 1) is 0.5.  Every bound the pass compares against   *)
(* is an integer, so halves decide every comparison the pass emits.        *)
(***************************************************************************)
EXTENDS Integers, Sequences, FiniteSets, TLC

VARIABLES
  F,                  \* the function body: [blocks, layout, inst]
  optsize,            \* F.hasFnAttribute(Attribute::OptimizeForSize)
  unavailable,        \* the library functions TLI.has() rejects
  DoDomainError,      \* -libcalls-shrinkwrap-domain-error
  DoRangeError,       \* -libcalls-shrinkwrap-range-error
  DoPoleError,        \* -libcalls-shrinkwrap-pole-error
  WorkList,           \* LibCallsShrinkWrap::WorkList (ids of call instructions)
  Changed,            \* LibCallsShrinkWrap::Changed
  NumWrappedOneCond,  \* STATISTIC
  NumWrappedTwoCond,  \* STATISTIC
  pc,                 \* position in runImpl: idle, visit, perform, done
  cursor,             \* next call to visit / next work-list entry to perform
  ret,                \* what runImpl returned: "true" or "false" ("none" before it returns)
  runs,               \* completed calls of runImpl on F
  fatal,              \* the assert or llvm_unreachable that aborted the run, or ""
  input               \* F as the current run of runImpl received it

vars == <<F, optsize, unavailable, DoDomainError, DoRangeError, DoPoleError,
          WorkList, Changed, NumWrappedOneCond, NumWrappedTwoCond, pc, cursor,
          ret, runs, fatal, input>>

(***************************************************************************)
(* Bounds of the model.                                                    *)
(***************************************************************************)
MaxCalls == 2
MaxRuns == 2

(***************************************************************************)
(* Floating-point values and LLVM's ordered comparisons.                   *)
(***************************************************************************)
FP(c, n) == [cls |-> c, num |-> n]
Fin(n) == FP("fin", 2 * n)
NaN == FP("nan", 0)
PInf == FP("pinf", 0)
NInf == FP("ninf", 0)
NegZero == FP("nzero", 0)

Rank(v) == CASE v.cls = "ninf" -> -1 [] v.cls = "pinf" -> 1 [] OTHER -> 0
Less(a, b) == Rank(a) < Rank(b) \/ (Rank(a) = 0 /\ Rank(b) = 0 /\ a.num < b.num)
Same(a, b) == Rank(a) = Rank(b) /\ (Rank(a) = 0 => a.num = b.num)

\* An fcmp with an ordered predicate: false when either operand is a NaN.
FCmp(pred, a, b) ==
  /\ a.cls # "nan"
  /\ b.cls # "nan"
  /\ CASE pred = "FCMP_OLT" -> Less(a, b)
       [] pred = "FCMP_OGT" -> Less(b, a)
       [] pred = "FCMP_OLE" -> Less(a, b) \/ Same(a, b)
       [] pred = "FCMP_OGE" -> Less(b, a) \/ Same(a, b)
       [] pred = "FCMP_OEQ" -> Same(a, b)

(***************************************************************************)
(* Values of the IR.  A constant is [ty, val].  An operand of a call is    *)
(* [src, ty, val, bw]: src is "const" (a ConstantFP of value val),         *)
(* "uitofp" / "sitofp" (an instruction converting a bw-bit integer),       *)
(* "inst" (any other instruction) or "param" (not an instruction).         *)
(* A condition is a tree: [op |-> "fcmp", pred, call, idx, k] compares     *)
(* operand idx of call instruction `call` with constant k; [op |-> "or",   *)
(* l, r]; Null is the nullptr.                                             *)
(***************************************************************************)
Null == [op |-> "null"]
ConstantFP(ty, v) == [ty |-> ty, val |-> v]
\* ConstantExpr::getFPExtend of a float constant: the wider type, the same value.
FPExtend(c, ty) == [ty |-> ty, val |-> c.val]
CreateFCmp(pred, ci, idx, k) == [op |-> "fcmp", pred |-> pred, call |-> ci, idx |-> idx, k |-> k]
CreateOr(l, r) == [op |-> "or", l |-> l, r |-> r]

\* What a builder call hands back: the value and the instructions it inserted
\* before CI, in insertion order.
Built(v, new) == [val |-> v, insts |-> new, one |-> 0, two |-> 0, fatal |-> ""]
Unreachable(msg) == [val |-> Null, insts |-> <<>>, one |-> 0, two |-> 0, fatal |-> msg]
Count(b, one, two) == [b EXCEPT !.one = @ + one, !.two = @ + two]

\* createCond(IRBuilder, Arg, Cmp, Val) on operand idx of CI.
createCondB(CI, idx, Cmp, Val) ==
  LET Arg == CI.ops[idx]
      V0 == ConstantFP("float", Val)
      V == IF Arg.ty # "float" THEN FPExtend(V0, Arg.ty) ELSE V0
  IN CreateFCmp(Cmp, CI.id, idx, V)

\* createCond(CI, Cmp, Val): a single condition on the first argument.
createCond(CI, Cmp, Val) ==
  LET c == createCondB(CI, 1, Cmp, Val) IN Built(c, <<c>>)

\* createOrCond: Cond2 is built first, then Cond1, then the or.
createOrCond(CI, Cmp, Val, Cmp2, Val2) ==
  LET Cond2 == createCondB(CI, 1, Cmp2, Val2)
      Cond1 == createCondB(CI, 1, Cmp, Val)
      o == CreateOr(Cond1, Cond2)
  IN Built(o, <<Cond2, Cond1, o>>)

(***************************************************************************)
(* Condition synthesis.  A perform* operator returns [ok, val, insts, one, *)
(* two, fatal]: ok is its bool result, val the condition handed to         *)
(* shrinkWrapCI, insts what the builder inserted before the call, one/two  *)
(* the increments of the statistics, fatal the failed check ("" if none).  *)
(***************************************************************************)
MaxUInt8 == 255

Declined == [ok |-> FALSE, val |-> Null, insts |-> <<>>, one |-> 0, two |-> 0, fatal |-> ""]

\* The tail of a perform* function: shrinkWrapCI(CI, Cond); return true.
\* shrinkWrapCI asserts Cond != nullptr.
WrapWith(b) ==
  [ok |-> b.fatal = "" /\ b.val.op # "null", val |-> b.val, insts |-> b.insts,
   one |-> b.one, two |-> b.two,
   fatal |-> IF b.fatal # "" THEN b.fatal
             ELSE IF b.val.op = "null" THEN "shrinkWrapCI is not expecting an empty call inst"
             ELSE ""]

performCallDomainErrorOnly(CI, Func) ==
  CASE Func \in {"acos", "acosf", "acosl", "asin", "asinf", "asinl"} ->
         WrapWith(Count(createOrCond(CI, "FCMP_OLT", Fin(-1), "FCMP_OGT", Fin(1)), 0, 1))
    [] Func \in {"cos", "cosf", "cosl", "sin", "sinf", "sinl"} ->
         WrapWith(Count(createOrCond(CI, "FCMP_OEQ", PInf, "FCMP_OEQ", NInf), 0, 1))
    [] Func \in {"acosh", "acoshf", "acoshl"} ->
         WrapWith(Count(createCond(CI, "FCMP_OLT", Fin(1)), 1, 0))
    [] Func \in {"sqrt", "sqrtf", "sqrtl"} ->
         WrapWith(Count(createCond(CI, "FCMP_OLT", Fin(0)), 1, 0))
    [] OTHER -> Declined

generateOneRangeCond(CI, Func) ==
  CASE Func = "expm1" -> Count(createCond(CI, "FCMP_OGT", Fin(709)), 1, 0)
    [] Func = "expm1f" -> Count(createCond(CI, "FCMP_OGT", Fin(88)), 1, 0)
    [] Func = "expm1l" -> Count(createCond(CI, "FCMP_OGT", Fin(11356)), 1, 0)
    [] OTHER -> Unreachable("Should be reach here")

\* A slip in the argument order: the bounds change places.
TwoRangeSwapped(CI, LowerBound, UpperBound) ==
  Count(createOrCond(CI, "FCMP_OGT", Fin(LowerBound), "FCMP_OLT", Fin(UpperBound)), 0, 1)

TwoRange(CI, LowerBound, UpperBound) ==
  Count(createOrCond(CI, "FCMP_OGT", Fin(UpperBound), "FCMP_OLT", Fin(LowerBound)), 0, 1)

generateTwoRangeCond(CI, Func) ==
  CASE Func \in {"cosh", "sinh"} -> TwoRange(CI, -710, 710)
    [] Func \in {"coshf", "sinhf"} -> TwoRange(CI, -89, 89)
    [] Func \in {"coshl", "sinhl"} -> TwoRange(CI, -11357, 11357)
    [] Func = "exp" -> TwoRange(CI, -745, 709)
    [] Func = "expf" -> TwoRange(CI, -103, 88)
    [] Func = "expl" -> TwoRange(CI, -11399, 11356)
    [] Func = "exp10" -> TwoRange(CI, -323, 308)
    [] Func = "exp10f" -> TwoRange(CI, -45, 38)
    [] Func = "exp10l" -> TwoRange(CI, -4950, 4932)
    [] Func = "exp2" -> TwoRange(CI, -1074, 1023)
    [] Func = "exp2f" -> TwoRange(CI, -149, 127)
    [] Func = "exp2l" -> TwoRange(CI, -16445, 11383)
    [] OTHER -> Unreachable("Should be reach here")

performCallRangeErrorOnly(CI, Func) ==
  CASE Func \in {"cosh", "coshf", "coshl", "exp", "expf", "expl", "exp10", "exp10f",
                 "exp10l", "exp2", "exp2f", "exp2l", "sinh", "sinhf", "sinhl"} ->
         WrapWith(generateTwoRangeCond(CI, Func))
    [] Func \in {"expm1", "expm1f", "expm1l"} ->
         WrapWith(generateOneRangeCond(CI, Func))
    [] OTHER -> Declined

generateCondForPow(CI, Func) ==
  IF Func # "pow" THEN Built(Null, <<>>)
  ELSE
    LET Base == CI.ops[1]
        Exp == CI.ops[2]
    IN IF Base.src = "const" THEN
         LET D == Base.val
         IN IF FCmp("FCMP_OLT", D, Fin(1)) \/ FCmp("FCMP_OGT", D, Fin(MaxUInt8))
            THEN Built(Null, <<>>)
            ELSE LET V0 == ConstantFP("float", Fin(127))
                     V == IF Exp.ty # "float" THEN FPExtend(V0, Exp.ty) ELSE V0
                     c == CreateFCmp("FCMP_OGT", CI.id, 2, V)
                 IN Count(Built(c, <<c>>), 1, 0)
       ELSE IF Base.src \notin {"uitofp", "sitofp", "inst"} THEN Built(Null, <<>>)
       ELSE IF Base.src \in {"uitofp", "sitofp"} THEN
         LET BW == Base.bw
         IN IF BW \notin {8, 16, 32} THEN Built(Null, <<>>)
            ELSE LET UpperV == CASE BW = 8 -> Fin(128) [] BW = 16 -> Fin(64) [] BW = 32 -> Fin(32)
                     Vf == ConstantFP("float", UpperV)
                     V0f == ConstantFP("float", Fin(0))
                     V == IF Exp.ty # "float" THEN FPExtend(Vf, Exp.ty) ELSE Vf
                     V0 == IF Base.ty # "float" THEN FPExtend(V0f, Exp.ty) ELSE V0f
                     Cond == CreateFCmp("FCMP_OGT", CI.id, 2, V)
                     Cond0 == CreateFCmp("FCMP_OLE", CI.id, 1, V0)
                     o == CreateOr(Cond0, Cond)
                 IN Count(Built(o, <<Cond, Cond0, o>>), 0, 1)
       ELSE Built(Null, <<>>)

performCallErrors(CI, Func, dom, rng, pole) ==
  CASE Func \in {"atanh", "atanhf", "atanhl"} ->
         IF ~dom \/ ~pole THEN Declined
         ELSE WrapWith(Count(createOrCond(CI, "FCMP_OLE", Fin(-1), "FCMP_OGE", Fin(1)), 0, 1))
    [] Func \in {"log", "logf", "logl", "log10", "log10f", "log10l",
                 "log2", "log2f", "log2l", "logb", "logbf", "logbl"} ->
         IF ~dom \/ ~pole THEN Declined
         ELSE WrapWith(Count(createCond(CI, "FCMP_OLE", Fin(0)), 1, 0))
    [] Func \in {"log1p", "log1pf", "log1pl"} ->
         IF ~dom \/ ~pole THEN Declined
         ELSE WrapWith(Count(createCond(CI, "FCMP_OLE", Fin(-1)), 1, 0))
    [] Func \in {"pow", "powf", "powl"} ->
         IF ~dom \/ ~pole \/ ~rng THEN Declined
         ELSE LET Cond == generateCondForPow(CI, Func)
              IN IF Cond.val.op = "null" THEN [Declined EXCEPT !.fatal = Cond.fatal]
                 ELSE WrapWith(Cond)
    [] OTHER -> Declined

(***************************************************************************)
(* TargetLibraryInfo.  Recognized are the functions of the three tables    *)
(* and, standing for the rest of LibFunc, floor and fabs.  A callee is a   *)
(* function name, "" for an indirect call.                                 *)
(***************************************************************************)
DomainFuncs == {"acos", "acosf", "acosl", "asin", "asinf", "asinl",
                "cos", "cosf", "cosl", "sin", "sinf", "sinl",
                "acosh", "acoshf", "acoshl", "sqrt", "sqrtf", "sqrtl"}
RangeFuncs == {"cosh", "coshf", "coshl", "exp", "expf", "expl", "exp10", "exp10f",
               "exp10l", "exp2", "exp2f", "exp2l", "sinh", "sinhf", "sinhl",
               "expm1", "expm1f", "expm1l"}
DomainPoleFuncs == {"atanh", "atanhf", "atanhl", "log", "logf", "logl", "log10",
                    "log10f", "log10l", "log2", "log2f", "log2l", "logb", "logbf",
                    "logbl", "log1p", "log1pf", "log1pl"}
PowFuncs == {"pow", "powf", "powl"}
TableFuncs == DomainFuncs \cup RangeFuncs \cup DomainPoleFuncs \cup PowFuncs
LibFuncs == TableFuncs \cup {"floor", "fabs"}

getLibFunc(Callee) == Callee \in LibFuncs
has(Func, unavail) == Func \notin unavail

\* A slip in the dispatch: the range toggle gates the domain-only category.
performRangeGatesDomain(CI, dom, rng, pole) ==
  LET Func == CI.callee
      d == IF rng THEN performCallDomainErrorOnly(CI, Func) ELSE Declined
      r == IF rng THEN performCallRangeErrorOnly(CI, Func) ELSE Declined
  IN IF d.ok THEN d ELSE IF r.ok THEN r ELSE performCallErrors(CI, Func, dom, rng, pole)

\* perform(CallInst *CI)
perform(CI, dom, rng, pole) ==
  IF CI.callee = "" THEN [Declined EXCEPT !.fatal = "perform() should apply to a non-empty callee"]
  ELSE
    LET Func == CI.callee
        d == IF dom THEN performCallDomainErrorOnly(CI, Func) ELSE Declined
        r == IF rng THEN performCallRangeErrorOnly(CI, Func) ELSE Declined
    IN IF d.ok \/ d.fatal # "" THEN d
       ELSE IF r.ok \/ r.fatal # "" THEN r
       ELSE performCallErrors(CI, Func, dom, rng, pole)

\* Slips in the filter: the use check, or the no-builtin check, is missing.
checkCandidateIgnoresUses(CI, unavail) ==
  /\ ~CI.noBuiltin
  /\ CI.callee # ""
  /\ getLibFunc(CI.callee) /\ has(CI.callee, unavail)
  /\ CI.ops[1].ty \in {"float", "double", "x86_fp80"}
checkCandidateIgnoresNoBuiltin(CI, unavail) ==
  /\ CI.uses = 0
  /\ CI.callee # ""
  /\ getLibFunc(CI.callee) /\ has(CI.callee, unavail)
  /\ CI.ops[1].ty \in {"float", "double", "x86_fp80"}

\* checkCandidate(CallInst &CI): whether CI is pushed on the work list.
checkCandidate(CI, unavail) ==
  IF CI.noBuiltin THEN FALSE
  ELSE IF CI.uses # 0 THEN FALSE
  ELSE IF CI.callee = "" THEN FALSE
  ELSE IF ~getLibFunc(CI.callee) \/ ~has(CI.callee, unavail) THEN FALSE
  ELSE IF ~(CI.ops[1].ty \in {"float", "double", "x86_fp80"}) THEN FALSE
  ELSE TRUE

(***************************************************************************)
(* The function body.  F.inst is the heap of instructions (an id is an     *)
(* index); a call is [kind |-> "call", id, callee, noBuiltin, uses, ops], *)
(* an inserted comparison or `or` is [kind, id, expr], anything else is    *)
(* [kind |-> "other", id].  F.blocks[b] is [name, insts, term] with insts  *)
(* a sequence of ids and term [op |-> "ret"], [op |-> "br", dest] or       *)
(* [op |-> "condbr", cond, t, f, wt, wf].  F.layout orders the blocks.     *)
(***************************************************************************)
BlockIds(G) == 1 .. Len(G.blocks)
BlockOf(G, i) ==
  CHOOSE b \in BlockIds(G) : \E p \in 1 .. Len(G.blocks[b].insts) : G.blocks[b].insts[p] = i
PosOf(G, i) ==
  CHOOSE p \in 1 .. Len(G.blocks[BlockOf(G, i)].insts) : G.blocks[BlockOf(G, i)].insts[p] = i
LayoutPos(G, b) == CHOOSE k \in 1 .. Len(G.layout) : G.layout[k] = b

\* The instructions of the function in the order InstVisitor::visit(F) meets them.
RECURSIVE InstsFrom(_, _)
InstsFrom(G, k) ==
  IF k > Len(G.layout) THEN <<>>
  ELSE G.blocks[G.layout[k]].insts \o InstsFrom(G, k + 1)
AllInsts(G) == InstsFrom(G, 1)

RECURSIVE OnlyCalls(_, _)
OnlyCalls(G, s) ==
  IF s = <<>> THEN <<>>
  ELSE IF G.inst[Head(s)].kind = "call" THEN <<Head(s)>> \o OnlyCalls(G, Tail(s))
  ELSE OnlyCalls(G, Tail(s))
CallInsts(G) == OnlyCalls(G, AllInsts(G))

\* IRBuilder<> BBBuilder(CI): every created instruction goes right before CI.
InsertBefore(G, ci, exprs) ==
  LET n == Len(G.inst)
      k == Len(exprs)
      b == BlockOf(G, ci)
      p == PosOf(G, ci)
      old == G.blocks[b].insts
      ids == [j \in 1 .. k |-> n + j]
  IN [G EXCEPT
        !.inst = @ \o [j \in 1 .. k |-> [kind |-> exprs[j].op, id |-> n + j, expr |-> exprs[j]]],
        !.blocks[b].insts = SubSeq(old, 1, p - 1) \o ids \o SubSeq(old, p, Len(old))]

\* SplitBlockAndInsertIfThen(Cond, SplitBefore, /*Unreachable=*/false, BranchWeights):
\* the block is split before SplitBefore into Head and Tail, an empty ThenBlock
\* that branches to Tail is put between them, and Head ends in
\* `br Cond, ThenBlock, Tail` carrying the weights.  ThenBlock is the last block.
SplitBlockAndInsertIfThen(G, Cond, SplitBefore, wt, wf) ==
  LET h == BlockOf(G, SplitBefore)
      p == PosOf(G, SplitBefore)
      old == G.blocks[h]
      TailB == Len(G.blocks) + 1
      ThenB == Len(G.blocks) + 2
      k == LayoutPos(G, h)
  IN [G EXCEPT
        !.blocks = [@ EXCEPT ![h] = [name |-> old.name,
                                     insts |-> SubSeq(old.insts, 1, p - 1),
                                     term |-> [op |-> "condbr", cond |-> Cond, t |-> ThenB,
                                               f |-> TailB, wt |-> wt, wf |-> wf]]]
                   \o << [name |-> "", insts |-> SubSeq(old.insts, p, Len(old.insts)),
                          term |-> old.term],
                         [name |-> "", insts |-> <<>>, term |-> [op |-> "br", dest |-> TailB]] >>,
        !.layout = SubSeq(@, 1, k) \o <<ThenB, TailB>> \o SubSeq(@, k + 1, Len(@))]

\* The rest of shrinkWrapCI: CallBB is the new block; it and its single successor
\* are named, and CI is taken out of its block and put first in CallBB.
MoveIntoCallBB(G1, CI) ==
  LET CallBB == Len(G1.blocks)
      Succ == G1.blocks[CallBB].term.dest
      from == BlockOf(G1, CI)
      p == PosOf(G1, CI)
      G2 == [G1 EXCEPT !.blocks[CallBB].name = "cdce.call", !.blocks[Succ].name = "cdce.end"]
      src == G2.blocks[from].insts
      G3 == [G2 EXCEPT !.blocks[from].insts = SubSeq(src, 1, p - 1) \o SubSeq(src, p + 1, Len(src))]
  IN [G3 EXCEPT !.blocks[CallBB].insts = <<CI>> \o @]

\* Slips in shrinkWrapCI: the weights change places; the call is not moved.
shrinkWrapCIWeightsReversed(G, CI, Cond) ==
  MoveIntoCallBB(SplitBlockAndInsertIfThen(G, Cond, CI, 2000, 1), CI)
shrinkWrapCIKeepsCall(G, CI, Cond) == SplitBlockAndInsertIfThen(G, Cond, CI, 1, 2000)

\* shrinkWrapCI(CI, Cond), after its assert.
shrinkWrapCI(G, CI, Cond) ==
  MoveIntoCallBB(SplitBlockAndInsertIfThen(G, Cond, CI, 1, 2000), CI)

(***************************************************************************)
(* runImpl, one step per visited call and per work-list entry.             *)
(***************************************************************************)
\* A slip in runImpl: the OptimizeForSize attribute is not looked at.
RunImplBeginIgnoresOptSize ==
  /\ pc = "idle"
  /\ input' = F
  /\ WorkList' = <<>>
  /\ Changed' = FALSE
  /\ cursor' = 1
  /\ pc' = IF CallInsts(F) = <<>> THEN "perform" ELSE "visit"
  /\ UNCHANGED <<F, optsize, unavailable, DoDomainError, DoRangeError, DoPoleError,
                 NumWrappedOneCond, NumWrappedTwoCond, fatal, ret, runs>>

RunImplBegin ==
  /\ pc = "idle"
  /\ input' = F
  /\ IF optsize
     THEN /\ ret' = "false"
          /\ pc' = "done"
          /\ runs' = runs + 1
          /\ UNCHANGED <<WorkList, Changed, cursor>>
     ELSE /\ WorkList' = <<>>
          /\ Changed' = FALSE
          /\ cursor' = 1
          /\ pc' = IF CallInsts(F) = <<>> THEN "perform" ELSE "visit"
          /\ UNCHANGED <<ret, runs>>
  /\ UNCHANGED <<F, optsize, unavailable, DoDomainError, DoRangeError, DoPoleError,
                 NumWrappedOneCond, NumWrappedTwoCond, fatal>>

\* A slip in the scan: an admitted call is put at the front of the work list.
visitCallInstPrepends ==
  /\ pc = "visit"
  /\ LET calls == CallInsts(F)
         CI == calls[cursor]
     IN /\ WorkList' = IF checkCandidate(F.inst[CI], unavailable)
                       THEN <<CI>> \o WorkList ELSE WorkList
        /\ IF cursor = Len(calls)
           THEN pc' = "perform" /\ cursor' = 1
           ELSE pc' = "visit" /\ cursor' = cursor + 1
  /\ UNCHANGED <<F, optsize, unavailable, DoDomainError, DoRangeError, DoPoleError,
                 Changed, NumWrappedOneCond, NumWrappedTwoCond, ret, runs, fatal, input>>

visitCallInst ==
  /\ pc = "visit"
  /\ LET calls == CallInsts(F)
         CI == calls[cursor]
     IN /\ WorkList' = IF checkCandidate(F.inst[CI], unavailable)
                       THEN Append(WorkList, CI) ELSE WorkList
        /\ IF cursor = Len(calls)
           THEN pc' = "perform" /\ cursor' = 1
           ELSE pc' = "visit" /\ cursor' = cursor + 1
  /\ UNCHANGED <<F, optsize, unavailable, DoDomainError, DoRangeError, DoPoleError,
                 Changed, NumWrappedOneCond, NumWrappedTwoCond, ret, runs, fatal, input>>

performNext ==
  /\ pc = "perform"
  /\ cursor <= Len(WorkList)
  /\ LET CI == WorkList[cursor]
         r == perform(F.inst[CI], DoDomainError, DoRangeError, DoPoleError)
         F1 == InsertBefore(F, CI, r.insts)
     IN /\ F' = IF r.ok THEN shrinkWrapCI(F1, CI, r.val) ELSE F1
        /\ Changed' = (Changed \/ r.ok)
        /\ NumWrappedOneCond' = NumWrappedOneCond + r.one
        /\ NumWrappedTwoCond' = NumWrappedTwoCond + r.two
        /\ fatal' = r.fatal
        /\ pc' = IF r.fatal # "" THEN "aborted" ELSE "perform"
  /\ cursor' = cursor + 1
  /\ UNCHANGED <<optsize, unavailable, DoDomainError, DoRangeError, DoPoleError,
                 WorkList, ret, runs, input>>

\* A slip in runImpl: it reports a change whenever it scanned the function.
RunImplEndAlwaysChanged ==
  /\ pc = "perform"
  /\ cursor > Len(WorkList)
  /\ ret' = "true"
  /\ pc' = "done"
  /\ runs' = runs + 1
  /\ UNCHANGED <<F, optsize, unavailable, DoDomainError, DoRangeError, DoPoleError,
                 WorkList, Changed, NumWrappedOneCond, NumWrappedTwoCond, cursor,
                 fatal, input>>

RunImplEnd ==
  /\ pc = "perform"
  /\ cursor > Len(WorkList)
  /\ ret' = IF Changed THEN "true" ELSE "false"
  /\ pc' = "done"
  /\ runs' = runs + 1
  /\ UNCHANGED <<F, optsize, unavailable, DoDomainError, DoRangeError, DoPoleError,
                 WorkList, Changed, NumWrappedOneCond, NumWrappedTwoCond, cursor,
                 fatal, input>>

\* The pass manager runs the pass on the function again.
RunAgain ==
  /\ pc = "done"
  /\ runs < MaxRuns
  /\ pc' = "idle"
  /\ ret' = "none"
  /\ UNCHANGED <<F, optsize, unavailable, DoDomainError, DoRangeError, DoPoleError,
                 WorkList, Changed, NumWrappedOneCond, NumWrappedTwoCond, cursor,
                 runs, fatal, input>>

Next == RunImplBegin \/ visitCallInst \/ performNext \/ RunImplEnd
NextAgain == RunImplBegin \/ visitCallInst \/ performNext \/ RunImplEnd \/ RunAgain

(***************************************************************************)
(* Function bodies the runs start from.                                    *)
(***************************************************************************)
Param(ty) == [src |-> "param", ty |-> ty, val |-> Fin(0), bw |-> 0]
InstOp(ty) == [src |-> "inst", ty |-> ty, val |-> Fin(0), bw |-> 0]
ConstOp(ty, v) == [src |-> "const", ty |-> ty, val |-> v, bw |-> 0]
IntToFP(how, bw, ty) == [src |-> how, ty |-> ty, val |-> Fin(0), bw |-> bw]
Site(callee, nb, uses, ops) == [callee |-> callee, noBuiltin |-> nb, uses |-> uses, ops |-> ops]

\* One entry block: other, call, other, call, ..., other; ret.
MkBody(sites) ==
  LET n == Len(sites)
  IN [inst |-> [i \in 1 .. 2 * n + 1 |->
                  IF i % 2 = 1 THEN [kind |-> "other", id |-> i]
                  ELSE [kind |-> "call", id |-> i, callee |-> sites[i \div 2].callee,
                        noBuiltin |-> sites[i \div 2].noBuiltin,
                        uses |-> sites[i \div 2].uses, ops |-> sites[i \div 2].ops]],
      blocks |-> << [name |-> "entry", insts |-> [i \in 1 .. 2 * n + 1 |-> i],
                     term |-> [op |-> "ret"]] >>,
      layout |-> <<1>>]

Exp10s == {"exp10", "exp10f", "exp10l"}

InitWith(bodies, avail, toggles, sizes) ==
  /\ F \in bodies
  /\ input = F
  /\ optsize \in sizes
  /\ unavailable \in avail
  /\ DoDomainError \in toggles
  /\ DoRangeError \in toggles
  /\ DoPoleError \in toggles
  /\ WorkList = <<>>
  /\ Changed = FALSE
  /\ NumWrappedOneCond = 0
  /\ NumWrappedTwoCond = 0
  /\ pc = "idle"
  /\ cursor = 1
  /\ ret = "none"
  /\ runs = 0
  /\ fatal = ""

\* Several calls in one body: one call site of each kind.
SitesMain == {
  Site("sqrt", FALSE, 0, <<Param("double")>>),
  Site("exp10", FALSE, 0, <<InstOp("double")>>),
  Site("expf", FALSE, 0, <<InstOp("float")>>),
  Site("pow", FALSE, 0, <<IntToFP("uitofp", 8, "double"), Param("double")>>),
  Site("log", FALSE, 1, <<Param("double")>>),
  Site("floor", FALSE, 0, <<Param("double")>>),
  Site("sqrtf", TRUE, 0, <<Param("float")>>),
  Site("cosl", FALSE, 0, <<Param("fp128")>>),
  Site("user_fn", FALSE, 0, <<Param("double")>>) }

BodiesMain == { MkBody(s) : s \in UNION { [1 .. n -> SitesMain] : n \in 1 .. MaxCalls } }

Init == InitWith(BodiesMain, {Exp10s}, BOOLEAN, BOOLEAN)
Spec == Init /\ [][Next]_vars

\* runImpl is straight-line code over finite loops: once called, every step of
\* the scan and of the work-list loop is taken.  This is WF_vars(Next) with
\* ENABLED <<Next>>_vars written out: a step is possible exactly while the run
\* has not returned.
Running == pc \in {"idle", "visit", "perform"}
SpecFair == Init /\ [][Next]_vars /\ ([]<>(~Running) \/ []<><<Next>>_vars)

\* One call, every way checkCandidate can turn it down.
SitesScan == { Site(c, nb, u, <<Param(ty), Param(ty)>>) :
                 c \in {"sqrt", "exp10", "pow", "floor", "user_fn", ""},
                 nb \in BOOLEAN, u \in 0 .. 2,
                 ty \in {"float", "double", "x86_fp80", "half", "fp128"} }
InitScan == InitWith({ MkBody(<<s>>) : s \in SitesScan }, {{}, Exp10s}, {TRUE}, BOOLEAN)
SpecScan == InitScan /\ [][Next]_vars

\* One call of every function of the tables, in every supported precision.
SitesTable == { Site(c, FALSE, 0, <<Param(ty)>>) :
                  c \in TableFuncs \ PowFuncs, ty \in {"float", "double", "x86_fp80"} }
              \cup { Site("pow", FALSE, 0, <<ConstOp("double", Fin(2)), Param("double")>>),
                     Site("powf", FALSE, 0, <<ConstOp("float", Fin(2)), Param("float")>>),
                     Site("powl", FALSE, 0, <<ConstOp("x86_fp80", Fin(2)), Param("x86_fp80")>>) }
InitTable == InitWith({ MkBody(<<s>>) : s \in SitesTable }, {{}}, BOOLEAN, BOOLEAN)
SpecTable == InitTable /\ [][Next]_vars

\* One call of the pow family, every provenance of the base.
TypeOfPow(c) == CASE c = "pow" -> "double" [] c = "powf" -> "float" [] c = "powl" -> "x86_fp80"
ConstBases == { FP("fin", 1), Fin(1), FP("fin", 3), Fin(2), Fin(255), FP("fin", 511), Fin(256),
                Fin(0), NegZero, Fin(-1), Fin(-2), NaN, PInf, NInf }
BasesPow(ty) == { ConstOp(ty, v) : v \in ConstBases }
                \cup { IntToFP(how, bw, ty) : how \in {"uitofp", "sitofp"}, bw \in {1, 8, 16, 32, 64} }
                \cup { InstOp(ty), Param(ty) }
SitesPow == UNION { { Site(c, FALSE, 0, <<b, Param(TypeOfPow(c))>>) : b \in BasesPow(TypeOfPow(c)) } :
                    c \in PowFuncs }
InitPow == InitWith({ MkBody(<<s>>) : s \in SitesPow }, {{}}, BOOLEAN, BOOLEAN)
SpecPow == InitPow /\ [][Next]_vars

\* The pass run again and again on what it produced.
SitesAgain == {
  Site("sqrt", FALSE, 0, <<Param("double")>>),
  Site("pow", FALSE, 0, <<IntToFP("sitofp", 16, "double"), Param("double")>>),
  Site("floor", FALSE, 0, <<Param("double")>>),
  Site("log", FALSE, 1, <<Param("double")>>) }
BodiesAgain == { MkBody(s) : s \in UNION { [1 .. n -> SitesAgain] : n \in 1 .. MaxCalls } }
InitAgain == InitWith(BodiesAgain, {{}}, BOOLEAN, BOOLEAN)
SpecAgain == InitAgain /\ [][NextAgain]_vars

(***************************************************************************)
(* Executing the function.  env[c] is the pair of values the operands of   *)
(* call c have at run time; a constant operand has its own value.          *)
(***************************************************************************)
OperandValue(G, c, idx, env) ==
  IF G.inst[c].ops[idx].src = "const" THEN G.inst[c].ops[idx].val ELSE env[c][idx]

RECURSIVE Eval(_, _, _)
Eval(G, c, env) ==
  CASE c.op = "fcmp" -> FCmp(c.pred, OperandValue(G, c.call, c.idx, env), c.k.val)
    [] c.op = "or" -> Eval(G, c.l, env) \/ Eval(G, c.r, env)
    [] OTHER -> FALSE

\* The instructions executed from block b on, in order; <<0>> marks a path
\* that did not reach a ret within `fuel` blocks.
RECURSIVE ExecFrom(_, _, _, _)
ExecFrom(G, b, env, fuel) ==
  IF fuel = 0 THEN <<0>>
  ELSE LET B == G.blocks[b]
       IN B.insts \o
          (CASE B.term.op = "ret" -> <<>>
             [] B.term.op = "br" -> ExecFrom(G, B.term.dest, env, fuel - 1)
             [] B.term.op = "condbr" ->
                  IF Eval(G, B.term.cond, env)
                  THEN ExecFrom(G, B.term.t, env, fuel - 1)
                  ELSE ExecFrom(G, B.term.f, env, fuel - 1))
Exec(G, env) == ExecFrom(G, G.layout[1], env, Len(G.blocks))

(***************************************************************************)
(* Reading a state.                                                        *)
(***************************************************************************)
Toggles == <<DoDomainError, DoRangeError, DoPoleError>>
AllEnabled == DoDomainError /\ DoRangeError /\ DoPoleError

\* The blocks that end in a conditional branch whose true edge enters the block of ci.
HeadsOf(G, ci) ==
  { h \in BlockIds(G) : G.blocks[h].term.op = "condbr" /\ G.blocks[h].term.t = BlockOf(G, ci) }
\* The call sits in a guarded block: it has been rewritten.
Moved(ci) == HeadsOf(F, ci) # {}
GuardOf(G, ci) == G.blocks[CHOOSE h \in HeadsOf(G, ci) : TRUE].term.cond

\* In a body of one call, MkBody gives the call id 2.
TheCall == F.inst[2]
OneEnv(x, y) == [c \in {2} |-> <<x, y>>]

(***************************************************************************)
(* pow(x, y) and errno, as the pass documents it: a domain error when      *)
(* x < 0 and y is not an integer, a pole error when x == 0 and y < 0, a    *)
(* range error when the result overflows or underflows.  |x|^y is at least *)
(* 2^(y * floor(log2 |x|)) for y > 0 and at most that for y < 0 (|x| >= 1; *)
(* the one sample below 1, 0.5, is a power of two), so the two tests below *)
(* name only results that are surely above the largest double (2^1024) or  *)
(* surely round to zero (below 2^-1075).                                   *)
(***************************************************************************)
RECURSIVE Log2Floor(_)
Log2Floor(n) == IF n < 2 THEN 0 ELSE 1 + Log2Floor(n \div 2)
Abs(n) == IF n < 0 THEN -n ELSE n
IsFinite(v) == v.cls \in {"fin", "nzero"}
IsIntegral(v) == IsFinite(v) /\ v.num % 2 = 0

PowDomainError(B, E) == IsFinite(B) /\ B.num < 0 /\ IsFinite(E) /\ ~IsIntegral(E)
PowPoleError(B, E) == IsFinite(B) /\ B.num = 0 /\ IsFinite(E) /\ E.num < 0
PowTwiceLog2(B, E) == E.num * (Log2Floor(Abs(B.num)) - 1)
PowOverflows(B, E) ==
  IsFinite(B) /\ B.num # 0 /\ IsFinite(E) /\ ~PowDomainError(B, E) /\ PowTwiceLog2(B, E) >= 2 * 1024
PowUnderflows(B, E) ==
  IsFinite(B) /\ B.num # 0 /\ IsFinite(E) /\ ~PowDomainError(B, E) /\ PowTwiceLog2(B, E) < 2 * (-1075)
PowSetsErrno(B, E) ==
  PowDomainError(B, E) \/ PowPoleError(B, E) \/ PowOverflows(B, E) \/ PowUnderflows(B, E)

\* Values an operand can have at run time.  An integer of 30 bits or more is
\* sampled up to 2^29.
RECURSIVE Pow2(_)
Pow2(n) == IF n = 0 THEN 1 ELSE 2 * Pow2(n - 1)
ExpSamples ==
  { Fin(e) : e \in {-2000, -1100, -1075, -129, -1, 0, 1, 31, 32, 33, 63, 64, 65,
                    127, 128, 129, 1024, 2000} }
  \cup { FP("fin", -1), FP("fin", 1), FP("fin", 255), FP("fin", 257), NaN, PInf, NInf, NegZero }
IntSamples(how, bw) ==
  LET w == IF bw > 30 THEN 30 ELSE bw
      top == IF how = "uitofp" THEN Pow2(w) - 1 ELSE Pow2(w - 1) - 1
      low == IF how = "uitofp" THEN 0 ELSE -Pow2(w - 1)
  IN { Fin(n) : n \in { m \in {low, -2, -1, 0, 1, 2, 3, 15, 16, 255, 256, 65535, 65536, top} :
                        low <= m /\ m <= top } }
OperandValues(op) ==
  CASE op.src = "const" -> {op.val}
    [] op.src \in {"uitofp", "sitofp"} -> IntSamples(op.src, op.bw)
    [] OTHER -> ExpSamples

\* The bases for which the pass documents a guard.
ConstBaseInRange(op) ==
  op.src = "const" /\ FCmp("FCMP_OGE", op.val, Fin(1)) /\ FCmp("FCMP_OLE", op.val, Fin(255))
IntBaseInRange(op) == op.src \in {"uitofp", "sitofp"} /\ op.bw \in {8, 16, 32}

(***************************************************************************)
(* C1: a synthesized guard of pow(B, E) is true for every (B, E) on which  *)
(* pow sets errno, by a domain, pole or range error (overflow or           *)
(* underflow); the guard never skips a call that would set it.             *)
(***************************************************************************)
C1_GuardCoversErrno ==
  (pc = "done" /\ TheCall.callee = "pow" /\ Moved(2)
     /\ (ConstBaseInRange(TheCall.ops[1]) \/ IntBaseInRange(TheCall.ops[1])))
  => \A B \in OperandValues(TheCall.ops[1]) : \A E \in ExpSamples :
       PowSetsErrno(B, E) => Eval(F, GuardOf(F, 2), OneEnv(B, E))

\* What of C1 the code does keep: with underflow left out, the guard covers errno.
C1_GuardCoversAllButUnderflow ==
  (pc = "done" /\ TheCall.callee = "pow" /\ Moved(2)
     /\ (ConstBaseInRange(TheCall.ops[1]) \/ IntBaseInRange(TheCall.ops[1])))
  => \A B \in OperandValues(TheCall.ops[1]) : \A E \in ExpSamples :
       (PowDomainError(B, E) \/ PowPoleError(B, E) \/ PowOverflows(B, E))
         => Eval(F, GuardOf(F, 2), OneEnv(B, E))

(***************************************************************************)
(* C3: synthesis for the pow family is a total case analysis with no fatal *)
(* check: a constant base in [1, 255] gives E > 127, a base widened from   *)
(* an 8-, 16- or 32-bit integer gives (B <= 0) OR (E > 128 / 64 / 32), and *)
(* every other case declines, leaving the function as it was and reporting *)
(* no change.                                                              *)
(***************************************************************************)
PowBound(bw) == CASE bw = 8 -> 128 [] bw = 16 -> 64 [] bw = 32 -> 32
C3_PowCaseAnalysis ==
  (pc \in {"done", "aborted"} /\ ~optsize /\ AllEnabled /\ TheCall.callee \in PowFuncs)
  => /\ fatal = ""
     /\ pc = "done"
     /\ CASE TheCall.callee = "pow" /\ ConstBaseInRange(TheCall.ops[1]) ->
               /\ Moved(2)
               /\ ret = "true"
               /\ GuardOf(F, 2) = CreateFCmp("FCMP_OGT", 2, 2, ConstantFP("double", Fin(127)))
          [] TheCall.callee = "pow" /\ IntBaseInRange(TheCall.ops[1]) ->
               /\ Moved(2)
               /\ ret = "true"
               /\ GuardOf(F, 2) =
                    CreateOr(CreateFCmp("FCMP_OLE", 2, 1, ConstantFP("double", Fin(0))),
                             CreateFCmp("FCMP_OGT", 2, 2,
                                        ConstantFP("double", Fin(PowBound(TheCall.ops[1].bw)))))
          [] OTHER -> F = input /\ ret = "false"

(***************************************************************************)
(* The error sets of the single-argument functions as the tables document *)
(* them, on values rather than on comparisons: a NaN is in no set.         *)
(***************************************************************************)
Below(x, b) == x.cls = "ninf" \/ (IsFinite(x) /\ x.num < 2 * b)
Above(x, b) == x.cls = "pinf" \/ (IsFinite(x) /\ x.num > 2 * b)
Outside(x, lo, hi) == Below(x, lo) \/ Above(x, hi)
Is(x, b) == IsFinite(x) /\ x.num = 2 * b

Documented(f, x) ==
  CASE f \in {"acos", "acosf", "acosl", "asin", "asinf", "asinl"} -> Outside(x, -1, 1)
    [] f \in {"cos", "cosf", "cosl", "sin", "sinf", "sinl"} -> x.cls \in {"pinf", "ninf"}
    [] f \in {"acosh", "acoshf", "acoshl"} -> Below(x, 1)
    [] f \in {"sqrt", "sqrtf", "sqrtl"} -> Below(x, 0)
    [] f \in {"atanh", "atanhf", "atanhl"} -> Outside(x, -1, 1) \/ Is(x, -1) \/ Is(x, 1)
    [] f \in {"log", "logf", "logl", "log2", "log2f", "log2l", "log10", "log10f", "log10l",
              "logb", "logbf", "logbl"} -> Below(x, 0) \/ Is(x, 0)
    [] f \in {"log1p", "log1pf", "log1pl"} -> Below(x, -1) \/ Is(x, -1)
    [] f = "expm1" -> Above(x, 709)
    [] f = "expm1f" -> Above(x, 88)
    [] f = "expm1l" -> Above(x, 11356)
    [] f = "exp" -> Outside(x, -745, 709)
    [] f = "expf" -> Outside(x, -103, 88)
    [] f = "expl" -> Outside(x, -11399, 11356)
    [] f = "exp2" -> Outside(x, -1074, 1023)
    [] f = "exp2f" -> Outside(x, -149, 127)
    [] f = "exp2l" -> Outside(x, -16445, 11383)
    [] f = "exp10" -> Outside(x, -323, 308)
    [] f = "exp10f" -> Outside(x, -45, 38)
    [] f = "exp10l" -> Outside(x, -4950, 4932)
    [] f \in {"cosh", "sinh"} -> Outside(x, -710, 710)
    [] f \in {"coshf", "sinhf"} -> Outside(x, -89, 89)
    [] f \in {"coshl", "sinhl"} -> Outside(x, -11357, 11357)

\* Every bound of the tables, the values half a unit to either side, and the
\* special values.
TableBounds == {-16445, -11399, -11357, -4950, -1074, -745, -710, -323, -149, -103, -89,
                -45, -1, 0, 1, 38, 88, 89, 127, 308, 709, 710, 1023, 4932, 11356, 11357,
                11383}
ArgSamples == { FP("fin", 2 * b + d) : b \in TableBounds, d \in {-1, 0, 1} }
              \cup {NaN, PInf, NInf, NegZero}

OrderedPredicates == {"FCMP_OLT", "FCMP_OGT", "FCMP_OLE", "FCMP_OGE", "FCMP_OEQ"}
\* A comparison of the call's first argument, or an `or` of two of them.
OverFirstArg(c, ci) ==
  \/ c.op = "fcmp" /\ c.pred \in OrderedPredicates /\ c.call = ci /\ c.idx = 1
  \/ /\ c.op = "or"
     /\ c.l.op = "fcmp" /\ c.l.pred \in OrderedPredicates /\ c.l.call = ci /\ c.l.idx = 1
     /\ c.r.op = "fcmp" /\ c.r.pred \in OrderedPredicates /\ c.r.call = ci /\ c.r.idx = 1

(***************************************************************************)
(* C2: with every toggle enabled, the guard synthesized for a single-      *)
(* argument function of the tables is built from ordered comparisons of    *)
(* the first argument and is true exactly on the documented error set:     *)
(* false at the bounds that are outside it, at -0.0 for sqrt, and on NaN.  *)
(***************************************************************************)
C2_GuardIsTheTable ==
  (pc = "done" /\ ~optsize /\ AllEnabled /\ TheCall.callee \in TableFuncs \ PowFuncs)
  => /\ Moved(2)
     /\ OverFirstArg(GuardOf(F, 2), 2)
     /\ \A x \in ArgSamples :
          Eval(F, GuardOf(F, 2), OneEnv(x, x)) <=> Documented(TheCall.callee, x)

C2_Witness ==
  /\ pc = "done" /\ AllEnabled /\ TheCall.callee = "exp2l" /\ Moved(2)
  /\ Eval(F, GuardOf(F, 2), OneEnv(FP("fin", 2 * 11383 + 1), NaN))
  /\ ~Eval(F, GuardOf(F, 2), OneEnv(Fin(11383), NaN))
  /\ ~Eval(F, GuardOf(F, 2), OneEnv(NaN, NaN))

(***************************************************************************)
(* C4 as amended: a call is on the work list after the scan if and only if *)
(* it is not marked no-builtin, its result has no use, its callee is a     *)
(* recognized library function available on the target (in the tables or   *)
(* not), and its first argument is float, double or x86 extended.          *)
(***************************************************************************)
InWorkList(ci) == \E i \in 1 .. Len(WorkList) : WorkList[i] = ci
CallIds(G) == { i \in 1 .. Len(G.inst) : G.inst[i].kind = "call" }
SupportedTypes == {"float", "double", "x86_fp80"}
Scanned == pc \in {"perform", "done"} /\ ~optsize

NoGuardFor(G, ci) ==
  \A i \in 1 .. Len(G.inst) :
    /\ G.inst[i].kind = "fcmp" => G.inst[i].expr.call # ci
    /\ G.inst[i].kind = "or" => G.inst[i].expr.l.call # ci /\ G.inst[i].expr.r.call # ci

C5_OnlyEligibleRewritten ==
  \A ci \in CallIds(input) :
    LET CI == input.inst[ci]
    IN /\ Moved(ci) => /\ CI.uses = 0
                       /\ ~CI.noBuiltin
                       /\ CI.callee \in LibFuncs /\ CI.callee \notin unavailable
                       /\ CI.ops[1].ty \in SupportedTypes
       /\ CI.uses # 0 => ~InWorkList(ci)
       /\ (CI.callee \notin LibFuncs \/ CI.ops[1].ty \notin SupportedTypes)
            => ~Moved(ci) /\ NoGuardFor(F, ci)

C5_Witness ==
  /\ pc = "done"
  /\ \E a, b \in CallIds(input) :
       /\ Moved(a)
       /\ input.inst[b].uses # 0 /\ input.inst[b].callee \in TableFuncs
       /\ ~Moved(b) /\ ~InWorkList(b)

(***************************************************************************)
(* C6: a call is rewritten only when every toggle its category needs is    *)
(* enabled (domain-only: domain; range-only: range; atanh, the log family  *)
(* and log1p: domain and pole; pow: all three).  With only the range       *)
(* toggle disabled no range-only call and no pow call is rewritten, and a  *)
(* domain-only or domain+pole call gets the guard it gets with the range   *)
(* toggle enabled.                                                         *)
(***************************************************************************)
RequiredEnabled(f) ==
  CASE f \in DomainFuncs -> DoDomainError
    [] f \in RangeFuncs -> DoRangeError
    [] f \in DomainPoleFuncs -> DoDomainError /\ DoPoleError
    [] f \in PowFuncs -> DoDomainError /\ DoPoleError /\ DoRangeError
    [] OTHER -> FALSE

C6_TogglesGateRewrite ==
  (pc = "done" /\ ~optsize) =>
    /\ Moved(2) => RequiredEnabled(TheCall.callee)
    /\ (DoDomainError /\ ~DoRangeError /\ DoPoleError) =>
         /\ TheCall.callee \in RangeFuncs \cup PowFuncs => ~Moved(2) /\ F = input /\ ret = "false"
         /\ TheCall.callee \in DomainFuncs \cup DomainPoleFuncs =>
              /\ Moved(2)
              /\ GuardOf(F, 2) = perform(input.inst[2], TRUE, TRUE, TRUE).val

C6_Witness ==
  /\ pc = "done" /\ DoDomainError /\ ~DoRangeError /\ DoPoleError
  /\ TheCall.callee = "log1pf" /\ Moved(2)
  /\ Eval(F, GuardOf(F, 2), OneEnv(Fin(-1), NaN))

(***************************************************************************)
(* Run-time values for the calls of a body: a few pairs that make each     *)
(* guard of the sample call sites true and false.  A base converted from   *)
(* an unsigned integer is never negative and never a NaN.                  *)
(***************************************************************************)
EnvVals == { <<Fin(-200), Fin(0)>>, <<Fin(0), Fin(129)>>, <<Fin(2), Fin(1)>>,
             <<Fin(100), NaN>>, <<NaN, Fin(200)>> }
EnvValsFor(CI) ==
  { v \in EnvVals : CI.ops[1].src \in {"uitofp", "sitofp"} =>
                      /\ IsIntegral(v[1])
                      /\ CI.ops[1].src = "uitofp" => v[1].num >= 0 }
Envs(G) == { env \in [CallIds(G) -> EnvVals] : \A c \in CallIds(G) : env[c] \in EnvValsFor(G.inst[c]) }

InSeq(s, x) == \E i \in 1 .. Len(s) : s[i] = x
RECURSIVE Keep(_, _)
\* The subsequence of s of the elements in set S.
Keep(s, S) ==
  IF s = <<>> THEN <<>>
  ELSE IF Head(s) \in S THEN <<Head(s)>> \o Keep(Tail(s), S) ELSE Keep(Tail(s), S)
Range(s) == { s[i] : i \in 1 .. Len(s) }

(***************************************************************************)
(* C7: a rewrite of a call with predicate P splits the call's block right  *)
(* before the call.  The head keeps the instructions before the call and   *)
(* ends in a branch on P whose true edge (weight 1) enters the guarded     *)
(* block and whose false edge (weight 2000) enters the continuation; the   *)
(* guarded block holds the call first and branches to the continuation,    *)
(* which holds the instructions after the call.  The call executes exactly *)
(* when P is true, it is itself unchanged, and every other instruction     *)
(* executes as before, in the same order.                                  *)
(***************************************************************************)
RewriteShape(G, H, ci, P) ==
  LET h == BlockOf(G, ci)
      p == PosOf(G, ci)
      old == G.blocks[h]
      g == BlockOf(H, ci)
      e == H.blocks[g].term.dest
      n == Len(G.inst)
      head == H.blocks[h].insts
  IN /\ g \notin BlockIds(G)
     /\ H.blocks[g].term.op = "br"
     /\ e \notin BlockIds(G) /\ e # g
     /\ H.blocks[h].term =
          [op |-> "condbr", cond |-> P, t |-> g, f |-> e, wt |-> 1, wf |-> 2000]
     /\ H.blocks[g].insts[1] = ci
     /\ Len(head) >= p - 1
     /\ SubSeq(head, 1, p - 1) = SubSeq(old.insts, 1, p - 1)
     /\ \A j \in p .. Len(head) : head[j] > n /\ H.inst[head[j]].kind \in {"fcmp", "or"}
     /\ H.blocks[e].insts = SubSeq(old.insts, p + 1, Len(old.insts))
     /\ H.blocks[e].term = old.term
     /\ \A b \in BlockIds(G) \ {h} : H.blocks[b] = G.blocks[b]
     /\ \A i \in 1 .. n : H.inst[i] = G.inst[i]
     /\ \A env \in Envs(G) :
          LET before == Exec(G, env)
              after == Exec(H, env)
          IN /\ InSeq(after, ci) <=> Eval(H, P, env)
             /\ Keep(after, (1 .. n) \ {ci}) = Keep(before, (1 .. n) \ {ci})

C7_SplitShape ==
  [][ (pc = "perform" /\ cursor <= Len(WorkList)
         /\ perform(F.inst[WorkList[cursor]], DoDomainError, DoRangeError, DoPoleError).ok)
      => RewriteShape(F, F', WorkList[cursor],
                      perform(F.inst[WorkList[cursor]], DoDomainError, DoRangeError,
                              DoPoleError).val) ]_vars

C7_Witness ==
  /\ pc = "done" /\ NumWrappedOneCond = 1 /\ NumWrappedTwoCond = 1
  /\ Moved(2) /\ Moved(4)
  /\ \E env \in Envs(F) : InSeq(Exec(F, env), 2) /\ ~InSeq(Exec(F, env), 4)

(***************************************************************************)
(* C8: a run returns changed = true if and only if it rewrote at least one *)
(* work-list candidate.  A candidate that fails every enabled category is  *)
(* left untouched, so a run that returns false leaves the body identical   *)
(* to its input.                                                           *)
(***************************************************************************)
C8_ChangedIffRewritten ==
  /\ pc = "done" =>
       /\ ret = "true" <=> \E ci \in CallIds(input) : InWorkList(ci) /\ Moved(ci)
       /\ ret = "false" => F = input
  /\ (pc \in {"perform", "done"} /\ ~optsize) =>
       \A i \in 1 .. cursor - 1 :
         ~perform(input.inst[WorkList[i]], DoDomainError, DoRangeError, DoPoleError).ok
           => /\ ~Moved(WorkList[i])
              /\ NoGuardFor(F, WorkList[i])
              /\ F.inst[WorkList[i]] = input.inst[WorkList[i]]

C8_Witness ==
  /\ pc = "done" /\ ret = "true" /\ Len(WorkList) = 2
  /\ Moved(WorkList[1]) /\ ~Moved(WorkList[2])

(***************************************************************************)
(* C9: a function marked optimize-for-size is skipped whole, whatever it   *)
(* calls and whatever the toggles: no scan, an empty work list, no call    *)
(* rewritten, the body unchanged, and the result false.                    *)
(***************************************************************************)
C9_OptSizeSkips ==
  optsize =>
    /\ pc \in {"idle", "done"}
    /\ WorkList = <<>>
    /\ F = input
    /\ \A ci \in CallIds(F) : ~Moved(ci)
    /\ Len(F.blocks) = 1
    /\ NumWrappedOneCond = 0 /\ NumWrappedTwoCond = 0
    /\ pc = "done" => ret = "false"

C9_Witness ==
  /\ optsize /\ pc = "done" /\ ret = "false" /\ AllEnabled
  /\ \E ci \in CallIds(F) : checkCandidate(F.inst[ci], unavailable) /\ F.inst[ci].callee = "sqrt"

(***************************************************************************)
(* C10: running the transform again on its own output only nests another   *)
(* guard.  After k runs a call the pass rewrites sits under k guards, each *)
(* on the same predicate and each inside the guarded block of the one      *)
(* before; every block ends in a terminator whose targets exist and        *)
(* reaches the return; the call executes exactly when the predicate is     *)
(* true; the other instructions execute as in the original, in order.      *)
(***************************************************************************)
\* The calls a condition reads.
CondCalls(c) ==
  CASE c.op = "fcmp" -> {c.call}
    [] c.op = "or" -> {c.l.call, c.r.call}
    [] OTHER -> {}
Guards(G, ci) ==
  { h \in BlockIds(G) : G.blocks[h].term.op = "condbr" /\ ci \in CondCalls(G.blocks[h].term.cond) }
WellFormed(G) ==
  /\ Len(G.layout) = Len(G.blocks)
  /\ Range(G.layout) = BlockIds(G)
  /\ \A b \in BlockIds(G) :
       LET t == G.blocks[b].term
       IN /\ t.op \in {"ret", "br", "condbr"}
          /\ t.op = "br" => t.dest \in BlockIds(G)
          /\ t.op = "condbr" => t.t \in BlockIds(G) /\ t.f \in BlockIds(G) /\ t.t # t.f
  /\ \A i \in 1 .. Len(G.inst) :
       Cardinality({ <<b, p>> \in BlockIds(G) \X (1 .. Len(G.inst)) :
                       p <= Len(G.blocks[b].insts) /\ G.blocks[b].insts[p] = i }) = 1

C10_RerunNests ==
  (pc = "done" /\ ~optsize) =>
    /\ WellFormed(F)
    /\ \A b \in BlockIds(F) : \A env \in Envs(F) :
         ~InSeq(ExecFrom(F, b, env, Len(F.blocks)), 0)
    /\ \A ci \in CallIds(F) :
         LET r == perform(F.inst[ci], DoDomainError, DoRangeError, DoPoleError)
             rewritten == checkCandidate(F.inst[ci], unavailable) /\ r.ok
             G == Guards(F, ci)
         IN /\ Cardinality(G) = IF rewritten THEN runs ELSE 0
            /\ \A h \in G :
                 /\ F.blocks[h].term.cond = r.val
                 /\ F.blocks[h].term.wt = 1 /\ F.blocks[h].term.wf = 2000
                 /\ F.blocks[h].term.t \in G \cup {BlockOf(F, ci)}
            /\ Cardinality({ F.blocks[h].term.t : h \in G }) = Cardinality(G)
            /\ rewritten => F.blocks[BlockOf(F, ci)].insts = <<ci>>
            /\ \A env \in Envs(F) :
                 InSeq(Exec(F, env), ci) <=> (~rewritten \/ Eval(F, r.val, env))
    /\ \A env \in Envs(F) :
         LET n == Len(F.inst)
             orig == { i \in 1 .. n : F.inst[i].kind \in {"call", "other"} }
             ran == Exec(F, env)
         IN Keep(ran, orig) = Keep([i \in 1 .. n |-> i], orig \cap Range(ran))

C10_Witness ==
  /\ pc = "done" /\ runs = 2
  /\ Cardinality(Guards(F, 2)) = 2
  /\ F.blocks[BlockOf(F, 2)].name = "cdce.call"
  /\ \E h \in Guards(F, 2) : F.blocks[h].name = "cdce.call"

(***************************************************************************)
(* C11: within one run the scan of the whole body is over before any       *)
(* rewrite begins; the work list holds the admitted calls in first-seen    *)
(* scan order; each entry is processed exactly once, in that order, and is *)
(* rewritten at most once, by the first of domain-only, range-only and     *)
(* combined that succeeds; no rewrite adds, removes or reorders an entry;  *)
(* and the run reaches its end.                                            *)
(***************************************************************************)
ScanPos(ci) == CHOOSE k \in 1 .. Len(AllInsts(input)) : AllInsts(input)[k] = ci

FirstCategory(CI) ==
  LET d == performCallDomainErrorOnly(CI, CI.callee)
      r == performCallRangeErrorOnly(CI, CI.callee)
      e == performCallErrors(CI, CI.callee, DoDomainError, DoRangeError, DoPoleError)
  IN IF DoDomainError /\ d.ok THEN d
     ELSE IF DoRangeError /\ r.ok THEN r
     ELSE IF e.ok THEN e
     ELSE [e EXCEPT !.val = Null]

ScanBeforeRewrite ==
  /\ pc = "visit" =>
       /\ F = input /\ ~Changed
       /\ Len(WorkList) < cursor
       /\ \A ci \in CallIds(F) : Guards(F, ci) = {}
  /\ pc \in {"visit", "perform", "done"} /\ ~optsize =>
       /\ \A i \in 1 .. Len(WorkList) : WorkList[i] \in CallIds(input)
       /\ \A i, j \in 1 .. Len(WorkList) :
            i < j => ScanPos(WorkList[i]) < ScanPos(WorkList[j])
       /\ \A i \in 1 .. Len(WorkList) :
            /\ Cardinality(Guards(F, WorkList[i])) <= 1
            /\ pc = "perform" /\ i >= cursor => Guards(F, WorkList[i]) = {}
            /\ Guards(F, WorkList[i]) # {} => FirstCategory(input.inst[WorkList[i]]).ok
  /\ pc = "done" /\ ~optsize =>
       /\ cursor = Len(WorkList) + 1
       /\ \A i \in 1 .. Len(WorkList) :
            Guards(F, WorkList[i]) # {} <=> FirstCategory(input.inst[WorkList[i]]).ok
  /\ pc # "aborted"

InOrderStep ==
  /\ pc = "visit" =>
       /\ F' = F /\ Changed' = Changed
       /\ NumWrappedOneCond' = NumWrappedOneCond /\ NumWrappedTwoCond' = NumWrappedTwoCond
       /\ \/ WorkList' = WorkList
          \/ \E ci \in CallIds(F) : WorkList' = Append(WorkList, ci)
  /\ pc = "perform" => WorkList' = WorkList /\ pc' \in {"perform", "done"}
  /\ pc = "perform" /\ pc' = "perform" =>
       /\ cursor <= Len(WorkList) /\ cursor' = cursor + 1
       /\ LET CI == WorkList[cursor]
              c == FirstCategory(F.inst[CI])
          IN /\ \A ci \in CallIds(F) \ {CI} :
                  Guards(F', ci) = Guards(F, ci) /\ HeadsOf(F', ci) = HeadsOf(F, ci)
             /\ Len(F'.inst) = Len(F.inst) + Len(c.insts)
             /\ NumWrappedOneCond' + NumWrappedTwoCond'
                  = NumWrappedOneCond + NumWrappedTwoCond + c.one + c.two
             /\ IF c.ok
                THEN /\ Cardinality(Guards(F', CI)) = Cardinality(Guards(F, CI)) + 1
                     /\ \A h \in Guards(F', CI) \ Guards(F, CI) :
                          F'.blocks[h].term.cond = c.val
                     /\ Changed'
                ELSE /\ Guards(F', CI) = Guards(F, CI)
                     /\ HeadsOf(F', CI) = HeadsOf(F, CI)
                     /\ Changed' = Changed
  /\ F' # F \/ Changed' # Changed => pc = "perform" /\ pc' = "perform"

C11_ScanThenInOrder ==
  /\ []ScanBeforeRewrite
  /\ [][InOrderStep]_vars
  /\ <>(pc = "done")

C11_Witness ==
  /\ pc = "done" /\ Len(WorkList) = 2
  /\ ScanPos(WorkList[1]) < ScanPos(WorkList[2])
  /\ Moved(WorkList[1]) /\ Moved(WorkList[2])
  /\ input.inst[WorkList[1]].callee # input.inst[WorkList[2]].callee

====
